---------------------------- MODULE Spec2Model ----------------------------
(***************************************************************************)
(* School-clinic appointment client: the admin dashboard                   *)
(* (src/admin-dashboard.js) and the student dashboard                      *)
(* (src/unnamed/part_000), modelled as state machines over the module      *)
(* level variables of the scripts and the parts of the DOM they write.     *)
(*                                                                         *)
(* Text is a sequence of one-character strings, so that toLowerCase() and  *)
(* includes() are computed and not assumed.  A text field that is null,    *)
(* undefined or '' is the empty sequence: the code reads such fields only  *)
(* through `field || default`, which treats the three alike.               *)
(***************************************************************************)
EXTENDS Integers, Sequences, FiniteSets

VARIABLES
    backend,          \* the appointments table behind GET /appointments
    loads,            \* admin: GET /appointments requests not yet answered
    allAppointments,  \* admin: let allAppointments (the Appointment Store)
    statusFilter,     \* admin DOM: value of #status-filter
    searchInput,      \* admin DOM: value of #search-input (as typed)
    sortOrder,        \* admin DOM: value of #sort-order
    tbody,            \* admin DOM: what #appointments-list shows
    studentLoads,     \* student: GET /appointments requests not yet answered
    studentStore,     \* student: let allAppointments
    studentFilter,    \* student DOM: value of #status-filter
    container,        \* student DOM: what #appointments-list shows
    chatHistory,      \* student: let chatHistory
    chats,            \* student: the calls of sendChatMessage that have not ended
    studentCalls,     \* student: the calls of handleBooking and deleteOrCancel that have not ended
    studentSwal,      \* student: the dialog that Swal.fire opened last
    activeTab,        \* admin DOM: the tab that showTab displayed last
    html5QrcodeScanner, \* admin: let html5QrcodeScanner
    scanResult,       \* admin DOM: what #scan-result shows
    checkins,         \* admin: the calls of onScanSuccess that have not ended
    swal,             \* the dialog that is open (Swal.fire replaces it)
    currentAppointmentId, \* admin: let currentAppointmentId
    modalDisplay,     \* admin DOM: style.display of #appointment-modal
    actionButtons,    \* admin DOM: style.display of .modal-actions
    rejectForm,       \* admin DOM: style.display of #reject-form
    adminNote,        \* admin DOM: value of #admin-note
    updates,          \* admin: the calls of updateAppointmentStatus that have not ended
    deletes,          \* admin: the confirmed calls of deleteAppointment that have not ended
    localStorage,     \* the items 'token' and 'role' of localStorage
    page,             \* the document that is loaded
    href,             \* the page a script has assigned to window.location.href
    pendingThen       \* the then-callback of a timed dialog that has not run yet

storeVars == <<backend, loads, allAppointments, statusFilter, searchInput, sortOrder, tbody>>
chatVars == <<chatHistory, chats>>
studentCallVars == <<studentCalls, studentSwal>>
studentVars == <<studentLoads, studentStore, studentFilter, container, chatVars, studentCallVars>>
scannerVars == <<activeTab, html5QrcodeScanner, scanResult, checkins, swal>>

modalVars == <<currentAppointmentId, modalDisplay, actionButtons, rejectForm, adminNote, updates, deletes>>

authVars == <<localStorage, page, href, pendingThen>>

vars == <<storeVars, studentVars, scannerVars, modalVars, authVars>>

-----------------------------------------------------------------------------
(* Text                                                                    *)

UpperCase == <<"A","B","C","D","E","F","G","H","I","J","K","L","M",
               "N","O","P","Q","R","S","T","U","V","W","X","Y","Z">>
LowerCase == <<"a","b","c","d","e","f","g","h","i","j","k","l","m",
               "n","o","p","q","r","s","t","u","v","w","x","y","z">>

\* String.prototype.toLowerCase, one character
ToLowerChar(c) ==
    IF \E i \in 1..26 : UpperCase[i] = c
    THEN LowerCase[CHOOSE i \in 1..26 : UpperCase[i] = c]
    ELSE c

\* String.prototype.toLowerCase
ToLowerCase(s) == [i \in 1..Len(s) |-> ToLowerChar(s[i])]

\* String.prototype.includes: t occurs in s as a contiguous substring
Includes(s, t) ==
    \E i \in 0..(Len(s) - Len(t)) : SubSeq(s, i + 1, i + Len(t)) = t

\* `field || ''`
OrEmpty(s) == s

kwClearance    == <<"c","l","e","a","r","a","n","c","e">>
kwConsultation == <<"c","o","n","s","u","l","t","a","t","i","o","n">>
txtUrgent == <<"u","r","g","e","n","t">>
txtHigh   == <<"h","i","g","h">>
txtNormal == <<"n","o","r","m","a","l">>
txtLow    == <<"l","o","w">>

-----------------------------------------------------------------------------
(* Dates: new Date('YYYY-MM-DD') is midnight UTC of that civil day.  The   *)
(* time value is kept in days (ms / 86400000): the comparator only uses    *)
(* the sign of a difference of two time values, which the factor keeps.    *)

Digits == <<"0","1","2","3","4","5","6","7","8","9">>
DigitValue(c) == (CHOOSE i \in 1..10 : Digits[i] = c) - 1

Number2(s, i) == 10 * DigitValue(s[i]) + DigitValue(s[i + 1])
Number4(s, i) == 100 * Number2(s, i) + Number2(s, i + 2)

\* days from 1970-01-01 to the civil day y-m-d (proleptic Gregorian)
DaysFromCivil(y, m, d) ==
    LET yy  == IF m <= 2 THEN y - 1 ELSE y
        era == yy \div 400
        yoe == yy - era * 400
        mp  == IF m > 2 THEN m - 3 ELSE m + 9
        doy == (153 * mp + 2) \div 5 + d - 1
        doe == yoe * 365 + yoe \div 4 - yoe \div 100 + doy
    IN  era * 146097 + doe - 719468

\* new Date(str) for str = 'YYYY-MM-DD', in days
DateValue(str) == DaysFromCivil(Number4(str, 1), Number2(str, 6), Number2(str, 9))

\* the appointment dates of the sample data, and their time values
dtJan01 == <<"2","0","2","4","-","0","1","-","0","1">>
dtJan10 == <<"2","0","2","4","-","0","1","-","1","0">>
dtJan12 == <<"2","0","2","4","-","0","1","-","1","2">>
dtFeb29 == <<"2","0","2","4","-","0","2","-","2","9">>
dtMar01 == <<"2","0","2","4","-","0","3","-","0","1">>
SampleDates == {dtJan01, dtJan10, dtJan12, dtFeb29, dtMar01}
TimeValue == [d \in SampleDates |-> DateValue(d)]

-----------------------------------------------------------------------------
(* The admin filter/sort pipeline: applyFiltersAndSort                     *)

CategoryChoices == {"clearance-urgent", "consultation-urgent",
                    "clearance-normal", "consultation-normal"}

\* matchesType with the urgency test left out
MatchesTypeAnyUrgency(apt, sortChoice) ==
    LET service == ToLowerCase(OrEmpty(apt.service_type))
    IN  IF sortChoice \in {"clearance-urgent", "clearance-normal"}
        THEN Includes(service, kwClearance)
        ELSE IF sortChoice \in {"consultation-urgent", "consultation-normal"}
        THEN Includes(service, kwConsultation)
        ELSE TRUE

\* let matchesType (admin-dashboard.js 180-192)
MatchesType(apt, sortChoice) ==
    LET service == ToLowerCase(OrEmpty(apt.service_type))
        urgency == ToLowerCase(OrEmpty(apt.urgency))
    IN  IF sortChoice = "clearance-urgent"
        THEN Includes(service, kwClearance) /\ (urgency = txtUrgent \/ urgency = txtHigh)
        ELSE IF sortChoice = "consultation-urgent"
        THEN Includes(service, kwConsultation) /\ (urgency = txtUrgent \/ urgency = txtHigh)
        ELSE IF sortChoice = "clearance-normal"
        THEN Includes(service, kwClearance) /\ (urgency = txtNormal \/ urgency = txtLow)
        ELSE IF sortChoice = "consultation-normal"
        THEN Includes(service, kwConsultation) /\ (urgency = txtNormal \/ urgency = txtLow)
        ELSE TRUE

MatchesStatus(apt, filter) == filter = "all" \/ apt.status = filter

\* searchTerm is the lower-cased value of #search-input
MatchesSearch(apt, searchTerm) == Includes(ToLowerCase(apt.student_name), searchTerm)

\* the callback with the search test left out
FilterPredicateNoSearch(apt, filter, searchTerm, sortChoice) ==
    MatchesStatus(apt, filter) /\ MatchesType(apt, sortChoice)

\* the callback of allAppointments.filter
FilterPredicate(apt, filter, searchTerm, sortChoice) ==
    /\ MatchesStatus(apt, filter)
    /\ MatchesSearch(apt, searchTerm)
    /\ MatchesType(apt, sortChoice)

\* Array.prototype.filter: the elements that pass, in the array's order
RECURSIVE ArrayFilter(_, _, _, _)
ArrayFilter(s, filter, searchTerm, sortChoice) ==
    IF s = <<>> THEN <<>>
    ELSE LET rest == ArrayFilter(Tail(s), filter, searchTerm, sortChoice)
         IN  IF FilterPredicate(Head(s), filter, searchTerm, sortChoice)
             THEN <<Head(s)>> \o rest
             ELSE rest

\* statusPriority with every other status in band 3
StatusPriorityRestThree(status) ==
    CASE status = "pending"   -> 1
      [] status = "approved"  -> 2
      [] OTHER                -> 3

\* statusPriority[status] || 99
StatusPriority(status) ==
    CASE status = "pending"   -> 1
      [] status = "approved"  -> 2
      [] status = "completed" -> 3
      [] status = "rejected"  -> 3
      [] status = "canceled"  -> 3
      [] OTHER                -> 99

\* the comparator with the dates subtracted the other way round
CompareOldestFirst(a, b) ==
    IF StatusPriority(a.status) # StatusPriority(b.status)
    THEN StatusPriority(a.status) - StatusPriority(b.status)
    ELSE TimeValue[a.appointment_date] - TimeValue[b.appointment_date]

\* the comparator handed to filtered.sort: negative puts a first
Compare(a, b) ==
    LET priorityA == StatusPriority(a.status)
        priorityB == StatusPriority(b.status)
    IN  IF priorityA # priorityB
        THEN priorityA - priorityB
        ELSE TimeValue[b.appointment_date] - TimeValue[a.appointment_date]

\* an insertion that moves x before the elements it compares equal to
RECURSIVE InsertBeforeEqual(_, _)
InsertBeforeEqual(s, x) ==
    IF s = <<>> THEN <<x>>
    ELSE IF Compare(s[Len(s)], x) >= 0
         THEN Append(InsertBeforeEqual(SubSeq(s, 1, Len(s) - 1), x), s[Len(s)])
         ELSE Append(s, x)

\* one insertion of the stable sort: x goes after every element that does
\* not compare greater than it
RECURSIVE Insert(_, _)
Insert(s, x) ==
    IF s = <<>> THEN <<x>>
    ELSE IF Compare(s[Len(s)], x) > 0
         THEN Append(Insert(SubSeq(s, 1, Len(s) - 1), x), s[Len(s)])
         ELSE Append(s, x)

\* Array.prototype.sort with the comparator (stable since ECMAScript 2019)
RECURSIVE ArraySort(_)
ArraySort(s) ==
    IF s = <<>> THEN <<>>
    ELSE Insert(ArraySort(SubSeq(s, 1, Len(s) - 1)), s[Len(s)])

\* displayAppointments(data) of the admin view
DisplayAppointments(data) ==
    IF Len(data) = 0
    THEN [kind |-> "none", rows |-> <<>>]
    ELSE [kind |-> "rows", rows |-> data]

\* what applyFiltersAndSort hands to displayAppointments
Pipeline(store, filter, typed, sortChoice) ==
    ArraySort(ArrayFilter(store, filter, ToLowerCase(typed), sortChoice))

\* applyFiltersAndSort(), run by a change of one of the three controls
ApplyFiltersAndSort(filter, typed, sortChoice) ==
    /\ statusFilter' = filter
    /\ searchInput' = typed
    /\ sortOrder' = sortChoice
    /\ tbody' = DisplayAppointments(Pipeline(allAppointments, filter, typed, sortChoice))
    /\ UNCHANGED <<backend, loads, allAppointments>>
    /\ UNCHANGED <<studentVars, scannerVars, modalVars>>
    /\ UNCHANGED authVars

-----------------------------------------------------------------------------
(* loadAppointments() of the admin view.  A request is "sent" until the    *)
(* server answers it from the table as it is then; the answer is a "reply" *)
(* until the awaiting handler runs on it.                                  *)

RemoveAt(s, i) == SubSeq(s, 1, i - 1) \o SubSeq(s, i + 1, Len(s))

\* the server answers request i: 200 with the table, or a non-2xx status
ServeLoad(i, ok) ==
    /\ i \in 1..Len(loads)
    /\ loads[i].stage = "sent"
    /\ loads' = [loads EXCEPT ![i] = [stage |-> "reply", ok |-> ok,
                                      body |-> IF ok THEN backend ELSE <<>>]]
    /\ UNCHANGED <<backend, allAppointments, statusFilter, searchInput, sortOrder, tbody>>
    /\ UNCHANGED <<studentVars, scannerVars, modalVars>>
    /\ UNCHANGED authVars

\* the rest of loadAppointments once the fetch of request i has resolved
ReceiveLoad(i) ==
    /\ i \in 1..Len(loads)
    /\ loads[i].stage = "reply"
    /\ loads' = RemoveAt(loads, i)
    /\ IF loads[i].ok
       THEN /\ allAppointments' = loads[i].body
            /\ tbody' = DisplayAppointments(
                            Pipeline(loads[i].body, statusFilter, searchInput, sortOrder))
       ELSE /\ tbody' = [kind |-> "error", rows |-> <<>>]
            /\ UNCHANGED allAppointments
    /\ UNCHANGED <<backend, statusFilter, searchInput, sortOrder>>
    /\ UNCHANGED <<studentVars, scannerVars, modalVars>>
    /\ UNCHANGED authVars

-----------------------------------------------------------------------------
(* The check-in scanner of the admin view                                  *)

NULL == "null"

MaxScans == 1
MaxRequests == 1

\* the list and update requests of the admin view that are not yet handled
RequestsOut == Len(loads) + Len(updates) + Len(deletes)

\* startScanner(): the scanner after the call
StartScanner(scanner) == IF scanner # NULL THEN scanner ELSE "Html5QrcodeScanner"

\* stopScanner(): the scanner after the call
StopScanner(scanner) == NULL

\* String(apt.id), for the ids of the sample data
IdText(id) == Digits[id + 1]

\* the table after PUT /appointments/{text} {status}, if a row has that id
WithStatus(table, text, status) ==
    [i \in 1..Len(table) |->
        IF IdText(table[i].id) = text THEN [table[i] EXCEPT !.status = status] ELSE table[i]]

\* what can come back for a PUT: the fetch throws, or a response with a
\* status (ok or not), a body that parses as JSON or not, and its detail
Thrown == [thrown |-> TRUE, ok |-> FALSE, parses |-> FALSE, detail |-> ""]
Response(ok, parses, detail) ==
    [thrown |-> FALSE, ok |-> ok, parses |-> parses, detail |-> detail]
PutOutcomes ==
    {Thrown,
     Response(TRUE, TRUE, ""), Response(TRUE, FALSE, ""),
     Response(FALSE, TRUE, "ALREADY_SCANNED"), Response(FALSE, TRUE, "already_scanned"),
     Response(FALSE, TRUE, "Appointment not found"), Response(FALSE, TRUE, ""),
     Response(FALSE, FALSE, "")}

\* loadAppointments() up to its await: one more request is out
LoadsAfterCall == Append(loads, [stage |-> "sent"])

\* showTab(tabName)
ShowTab(tabName) ==
    /\ activeTab' = tabName
    /\ html5QrcodeScanner' = IF tabName = "scanner"
                             THEN StartScanner(html5QrcodeScanner)
                             ELSE StopScanner(html5QrcodeScanner)
    /\ loads' = IF tabName = "appointments" THEN LoadsAfterCall ELSE loads
    /\ UNCHANGED <<backend, allAppointments, statusFilter, searchInput, sortOrder, tbody>>
    /\ UNCHANGED <<scanResult, checkins, swal>>
    /\ UNCHANGED <<studentVars, modalVars>>
    /\ UNCHANGED authVars

\* the request of onScanSuccess: PUT /appointments/{decodedText} with this body
CheckinRequest(decodedText) ==
    [path |-> decodedText, status |-> "completed", admin_note |-> "Verified via QR Scan"]

\* onScanSuccess that leaves the scanner running
OnScanSuccessNoStop(decodedText) ==
    /\ html5QrcodeScanner # NULL
    /\ scanResult' = <<"Processing ID", decodedText>>
    /\ checkins' = Append(checkins, [id |-> decodedText, stage |-> "sent",
                                     request |-> CheckinRequest(decodedText)])
    /\ UNCHANGED <<activeTab, html5QrcodeScanner, swal>>
    /\ UNCHANGED <<storeVars, studentVars, modalVars>>
    /\ UNCHANGED authVars

\* onScanSuccess(decodedText) up to its first await; the library calls it
\* while the scanner it was rendered by is running
OnScanSuccess(decodedText) ==
    /\ html5QrcodeScanner # NULL
    /\ html5QrcodeScanner' = StopScanner(html5QrcodeScanner)
    /\ scanResult' = <<"Processing ID", decodedText>>
    /\ checkins' = Append(checkins, [id |-> decodedText, stage |-> "sent",
                                     request |-> CheckinRequest(decodedText)])
    /\ UNCHANGED <<activeTab, swal>>
    /\ UNCHANGED <<storeVars, studentVars, modalVars>>
    /\ UNCHANGED authVars

\* the PUT of call i is answered; the row is written if the answer is 2xx
ServeCheckin(i, outcome) ==
    /\ i \in 1..Len(checkins)
    /\ checkins[i].stage = "sent"
    /\ backend' = IF ~outcome.thrown /\ outcome.ok
                  THEN WithStatus(backend, checkins[i].request.path, checkins[i].request.status)
                  ELSE backend
    /\ checkins' = [checkins EXCEPT ![i] =
                       [id |-> checkins[i].id, stage |-> "reply", reply |-> outcome]]
    /\ UNCHANGED <<loads, allAppointments, statusFilter, searchInput, sortOrder, tbody>>
    /\ UNCHANGED <<activeTab, html5QrcodeScanner, scanResult, swal>>
    /\ UNCHANGED <<studentVars, modalVars>>
    /\ UNCHANGED authVars

Dialog(icon, title, id) == [icon |-> icon, title |-> title, id |-> id]
NoDialog == Dialog("none", "", "")

\* the stage with the scanned code treated like any other failure
StageAfterNoConflict(reply) ==
    IF reply.thrown \/ ~reply.parses THEN "backoff"
    ELSE IF reply.ok THEN "verified"
    ELSE "backoff"

\* the stage with no timer set where the fetch or the parse has thrown
StageAfterNoCatchTimer(reply) ==
    IF reply.thrown \/ ~reply.parses THEN "done"
    ELSE IF reply.ok THEN "verified"
    ELSE IF reply.detail = "ALREADY_SCANNED" \/ reply.detail = "already_scanned" THEN "warning"
    ELSE "backoff"

\* the stage call i is in once the code after its awaits has run: waiting
\* for the success dialog's timer, for the warning to be dismissed, or for
\* the 2000 ms timer
StageAfter(reply) ==
    IF reply.thrown \/ ~reply.parses THEN "backoff"
    ELSE IF reply.ok THEN "verified"
    ELSE IF reply.detail = "ALREADY_SCANNED" \/ reply.detail = "already_scanned" THEN "warning"
    ELSE "backoff"

\* the dialog that the code after the awaits opens
DialogAfter(reply, id) ==
    IF reply.thrown \/ ~reply.parses THEN Dialog("error", "Connection Error", id)
    ELSE IF reply.ok THEN Dialog("success", "Verified!", id)
    ELSE IF reply.detail = "ALREADY_SCANNED" \/ reply.detail = "already_scanned"
    THEN Dialog("warning", "ALREADY USED", id)
    ELSE Dialog("error", IF reply.detail # "" THEN reply.detail ELSE "Server Error", id)

\* onScanSuccess from its awaits to its end, for call i
ReceiveCheckin(i) ==
    /\ i \in 1..Len(checkins)
    /\ checkins[i].stage = "reply"
    /\ checkins' = [checkins EXCEPT ![i] =
                       [id |-> checkins[i].id, stage |-> StageAfter(checkins[i].reply)]]
    /\ swal' = DialogAfter(checkins[i].reply, checkins[i].id)
    /\ UNCHANGED <<activeTab, html5QrcodeScanner, scanResult>>
    /\ UNCHANGED <<storeVars, studentVars, modalVars>>
    /\ UNCHANGED authVars

\* the success dialog closes after its 2500 ms: its then-callback runs
CloseVerified(i) ==
    /\ i \in 1..Len(checkins)
    /\ checkins[i].stage = "verified"
    /\ scanResult' = <<"Ready for next student.">>
    /\ html5QrcodeScanner' = StartScanner(html5QrcodeScanner)
    /\ checkins' = RemoveAt(checkins, i)
    /\ swal' = IF swal = Dialog("success", "Verified!", checkins[i].id) THEN NoDialog ELSE swal
    /\ UNCHANGED <<activeTab>>
    /\ UNCHANGED <<storeVars, studentVars, modalVars>>
    /\ UNCHANGED authVars

\* the admin dismisses the warning dialog: its then-callback runs
DismissWarning(i) ==
    /\ i \in 1..Len(checkins)
    /\ checkins[i].stage = "warning"
    /\ html5QrcodeScanner' = StartScanner(html5QrcodeScanner)
    /\ checkins' = RemoveAt(checkins, i)
    /\ swal' = IF swal = Dialog("warning", "ALREADY USED", checkins[i].id) THEN NoDialog ELSE swal
    /\ UNCHANGED <<activeTab, scanResult>>
    /\ UNCHANGED <<storeVars, studentVars, modalVars>>
    /\ UNCHANGED authVars

\* setTimeout(startScanner, 2000) fires
BackoffTimer(i) ==
    /\ i \in 1..Len(checkins)
    /\ checkins[i].stage = "backoff"
    /\ html5QrcodeScanner' = StartScanner(html5QrcodeScanner)
    /\ checkins' = RemoveAt(checkins, i)
    /\ UNCHANGED <<activeTab, scanResult, swal>>
    /\ UNCHANGED <<storeVars, studentVars, modalVars>>
    /\ UNCHANGED authVars

-----------------------------------------------------------------------------
(* The appointment modal of the admin view                                 *)

\* allAppointments.find(a => a.id === id): the index of the first match, 0 for none
Find(store, id) ==
    IF \E i \in 1..Len(store) : store[i].id = id
    THEN CHOOSE i \in 1..Len(store) :
            store[i].id = id /\ \A j \in 1..(i - 1) : store[j].id # id
    ELSE 0

\* the display that openAppointmentModal gives .modal-actions
ActionsDisplay(status) == IF status # "pending" THEN "none" ELSE "flex"

\* openAppointmentModal(id), from the View button of a rendered row
OpenAppointmentModal(id) ==
    /\ \E i \in 1..Len(tbody.rows) : tbody.rows[i].id = id
    /\ Find(allAppointments, id) # 0
    /\ currentAppointmentId' = id
    /\ rejectForm' = "none"
    /\ actionButtons' = ActionsDisplay(allAppointments[Find(allAppointments, id)].status)
    /\ modalDisplay' = "flex"
    /\ UNCHANGED <<adminNote, updates, deletes>>
    /\ UNCHANGED <<storeVars, studentVars, scannerVars>>
    /\ UNCHANGED authVars

\* closeModal('appointment-modal'), from the close button of the modal
CloseModal ==
    /\ modalDisplay = "flex"
    /\ modalDisplay' = "none"
    /\ UNCHANGED <<currentAppointmentId, actionButtons, rejectForm, adminNote, updates, deletes>>
    /\ UNCHANGED <<storeVars, studentVars, scannerVars>>
    /\ UNCHANGED authVars

\* the Approve and Reject buttons are those of .modal-actions, the note field
\* and the button that confirms a rejection those of #reject-form
ApproveOffered == modalDisplay = "flex" /\ actionButtons = "flex"
RejectFormOffered == modalDisplay = "flex" /\ rejectForm = "block"

\* showRejectForm(), from the Reject button
ShowRejectForm ==
    /\ ApproveOffered
    /\ rejectForm' = "block"
    /\ UNCHANGED <<currentAppointmentId, modalDisplay, actionButtons, adminNote, updates, deletes>>
    /\ UNCHANGED <<storeVars, studentVars, scannerVars>>
    /\ UNCHANGED authVars

\* the admin types into #admin-note
TypeAdminNote(text) ==
    /\ RejectFormOffered
    /\ adminNote' = text
    /\ UNCHANGED <<currentAppointmentId, modalDisplay, actionButtons, rejectForm, updates, deletes>>
    /\ UNCHANGED <<storeVars, studentVars, scannerVars>>
    /\ UNCHANGED authVars

\* the request of updateAppointmentStatus(status)
UpdateRequest(status) ==
    [path |-> IdText(currentAppointmentId), status |-> status, admin_note |-> adminNote]

\* updateAppointmentStatus(status) up to its await
UpdateAppointmentStatus(status) ==
    /\ \/ status = "approved" /\ ApproveOffered
       \/ status = "rejected" /\ RejectFormOffered
    /\ updates' = Append(updates, [stage |-> "sent", request |-> UpdateRequest(status)])
    /\ UNCHANGED <<currentAppointmentId, modalDisplay, actionButtons, rejectForm, adminNote, deletes>>
    /\ UNCHANGED <<storeVars, studentVars, scannerVars>>
    /\ UNCHANGED authVars

\* the PUT of call i is answered; the row is written if the answer is 2xx
ServeUpdate(i, outcome) ==
    /\ i \in 1..Len(updates)
    /\ updates[i].stage = "sent"
    /\ backend' = IF ~outcome.thrown /\ outcome.ok
                  THEN WithStatus(backend, updates[i].request.path, updates[i].request.status)
                  ELSE backend
    /\ updates' = [updates EXCEPT ![i] =
                      [stage |-> "reply", request |-> updates[i].request, reply |-> outcome]]
    /\ UNCHANGED <<loads, allAppointments, statusFilter, searchInput, sortOrder, tbody>>
    /\ UNCHANGED <<currentAppointmentId, modalDisplay, actionButtons, rejectForm, adminNote, deletes>>
    /\ UNCHANGED <<studentVars, scannerVars>>
    /\ UNCHANGED authVars

\* updateAppointmentStatus after its await, for call i: nothing runs if the
\* fetch has thrown; else the modal is closed, the success dialog opened and
\* loadAppointments called, whatever the status of the response
ReceiveUpdate(i) ==
    /\ i \in 1..Len(updates)
    /\ updates[i].stage = "reply"
    /\ updates' = RemoveAt(updates, i)
    /\ IF updates[i].reply.thrown
       THEN UNCHANGED <<modalDisplay, swal, loads>>
       ELSE /\ modalDisplay' = "none"
            /\ swal' = Dialog("success", "Updated!", updates[i].request.path)
            /\ loads' = LoadsAfterCall
    /\ UNCHANGED <<backend, allAppointments, statusFilter, searchInput, sortOrder, tbody>>
    /\ UNCHANGED <<currentAppointmentId, actionButtons, rejectForm, adminNote, deletes>>
    /\ UNCHANGED <<activeTab, html5QrcodeScanner, scanResult, checkins>>
    /\ UNCHANGED studentVars
    /\ UNCHANGED authVars

\* the table after DELETE /appointments/{text}: the row drops out of the list
WithoutRow(table, text) ==
    LET keep == {i \in 1..Len(table) : IdText(table[i].id) # text}
        RECURSIVE Pick(_)
        Pick(i) == IF i > Len(table) THEN <<>>
                   ELSE IF i \in keep THEN <<table[i]>> \o Pick(i + 1) ELSE Pick(i + 1)
    IN  Pick(1)

\* deleteAppointment(id) once the admin has confirmed the dialog, up to the
\* await of its fetch
DeleteAppointment(id) ==
    /\ \E i \in 1..Len(tbody.rows) : tbody.rows[i].id = id
    /\ deletes' = Append(deletes, [stage |-> "sent", path |-> IdText(id)])
    /\ UNCHANGED <<currentAppointmentId, modalDisplay, actionButtons, rejectForm, adminNote, updates>>
    /\ UNCHANGED <<storeVars, studentVars, scannerVars>>
    /\ UNCHANGED authVars

\* the DELETE of call i is answered; the row is removed if the answer is 2xx
ServeDelete(i, outcome) ==
    /\ i \in 1..Len(deletes)
    /\ deletes[i].stage = "sent"
    /\ backend' = IF ~outcome.thrown /\ outcome.ok
                  THEN WithoutRow(backend, deletes[i].path)
                  ELSE backend
    /\ deletes' = [deletes EXCEPT ![i] =
                      [stage |-> "reply", path |-> deletes[i].path, reply |-> outcome]]
    /\ UNCHANGED <<loads, allAppointments, statusFilter, searchInput, sortOrder, tbody>>
    /\ UNCHANGED <<currentAppointmentId, modalDisplay, actionButtons, rejectForm, adminNote, updates>>
    /\ UNCHANGED <<studentVars, scannerVars>>
    /\ UNCHANGED authVars

\* deleteAppointment after its await, for call i: a thrown fetch is logged
\* to the console only; the body is not read
ReceiveDelete(i) ==
    /\ i \in 1..Len(deletes)
    /\ deletes[i].stage = "reply"
    /\ deletes' = RemoveAt(deletes, i)
    /\ IF deletes[i].reply.thrown
       THEN UNCHANGED <<swal, loads>>
       ELSE IF deletes[i].reply.ok
       THEN /\ swal' = Dialog("success", "Deleted!", deletes[i].path)
            /\ loads' = LoadsAfterCall
       ELSE /\ swal' = Dialog("error", "Error", deletes[i].path)
            /\ UNCHANGED loads
    /\ UNCHANGED <<backend, allAppointments, statusFilter, searchInput, sortOrder, tbody>>
    /\ UNCHANGED <<currentAppointmentId, modalDisplay, actionButtons, rejectForm, adminNote, updates>>
    /\ UNCHANGED <<activeTab, html5QrcodeScanner, scanResult, checkins>>
    /\ UNCHANGED studentVars
    /\ UNCHANGED authVars

\* the status moves of the backend that other clients ask for: a student
\* cancels, another admin approves or rejects, a ticket is scanned
StatusMoves ==
    {<<"pending", "approved">>, <<"pending", "rejected">>, <<"pending", "canceled">>,
     <<"approved", "completed">>, <<"approved", "canceled">>}

\* another client changes the status of row i
OtherClientUpdate(i, status) ==
    /\ i \in 1..Len(backend)
    /\ <<backend[i].status, status>> \in StatusMoves
    /\ backend' = [backend EXCEPT ![i].status = status]
    /\ UNCHANGED <<loads, allAppointments, statusFilter, searchInput, sortOrder, tbody>>
    /\ UNCHANGED <<studentVars, scannerVars, modalVars>>
    /\ UNCHANGED authVars

-----------------------------------------------------------------------------
(* The student view (src/unnamed/part_000)                                 *)

Button(label, onclick) == [label |-> label, onclick |-> onclick]

\* actionButtonsHtml with the approved branch offering the cancel button only
ActionButtonsNoTicket(status) ==
    IF status = "pending"
    THEN <<Button("Cancel Request", "cancelAppointment")>>
    ELSE IF status = "approved"
    THEN <<Button("Cancel Appointment", "deleteHistory")>>
    ELSE <<Button("Delete History", "deleteHistory")>>

\* let actionButtonsHtml: the buttons of one card, in document order
ActionButtons(status) ==
    IF status = "pending"
    THEN <<Button("Cancel Request", "cancelAppointment")>>
    ELSE IF status = "approved"
    THEN <<Button("Download Ticket", "generateTicket"),
           Button("Cancel Appointment", "deleteHistory")>>
    ELSE IF status = "completed"
    THEN <<Button("Delete History", "deleteHistory")>>
    ELSE <<Button("Delete History", "deleteHistory")>>

\* one card of the student list
Card(apt) == [id |-> apt.id, status |-> apt.status, buttons |-> ActionButtons(apt.status)]

\* displayAppointments(appointments) of the student view, for an array
StudentDisplay(appointments) ==
    IF Len(appointments) = 0
    THEN [kind |-> "none", cards |-> <<>>]
    ELSE [kind |-> "cards", cards |-> [i \in 1..Len(appointments) |-> Card(appointments[i])]]

\* allAppointments.filter(apt => apt.status === filter)
RECURSIVE StatusOnly(_, _)
StatusOnly(s, filter) ==
    IF s = <<>> THEN <<>>
    ELSE IF Head(s).status = filter
         THEN <<Head(s)>> \o StatusOnly(Tail(s), filter)
         ELSE StatusOnly(Tail(s), filter)

\* the store of the student view: the parsed body of the last answer, an
\* array of appointments or some other JSON value
ArrayBody(list) == [isArray |-> TRUE, list |-> list]
OtherBody == [isArray |-> FALSE, list |-> <<>>]

\* what can come back for the student's GET: the table (2xx), an error
\* object such as {detail: ...} (not 2xx), or nothing that parses (the fetch
\* or response.json() throws)
LoadOutcomes == {"list", "object", "thrown"}

\* student request i is answered
StudentServeLoad(i, outcome) ==
    /\ i \in 1..Len(studentLoads)
    /\ studentLoads[i].stage = "sent"
    /\ studentLoads' = [studentLoads EXCEPT ![i] =
                           [stage |-> "reply",
                            thrown |-> outcome = "thrown",
                            body |-> IF outcome = "list" THEN ArrayBody(backend) ELSE OtherBody]]
    /\ UNCHANGED <<studentStore, studentFilter, container, chatVars, studentCallVars>>
    /\ UNCHANGED <<storeVars, scannerVars, modalVars>>
    /\ UNCHANGED authVars

\* the store with the rows of the answer added to the rows it has
StoreAfterLoadPatched(store, reply) ==
    IF reply.thrown THEN store
    ELSE [isArray |-> reply.body.isArray, list |-> store.list \o reply.body.list]

\* the store after the awaits of the student loadAppointments: the parsed
\* body, whatever the status of the response
StoreAfterLoad(store, reply) ==
    IF reply.thrown THEN store ELSE reply.body

\* the rest of the student loadAppointments: a throw of the awaits goes to
\* the catch; else the body is stored, and displayAppointments throws on a
\* body that is no array, which the catch turns into the error text
StudentReceiveLoad(i) ==
    /\ i \in 1..Len(studentLoads)
    /\ studentLoads[i].stage = "reply"
    /\ studentLoads' = RemoveAt(studentLoads, i)
    /\ studentStore' = StoreAfterLoad(studentStore, studentLoads[i])
    /\ container' = IF ~studentLoads[i].thrown /\ studentLoads[i].body.isArray
                    THEN StudentDisplay(studentLoads[i].body.list)
                    ELSE [kind |-> "error", cards |-> <<>>]
    /\ UNCHANGED <<studentFilter, chatVars, studentCallVars>>
    /\ UNCHANGED <<storeVars, scannerVars, modalVars>>
    /\ UNCHANGED authVars

\* filterAppointments(), run by a change of #status-filter; on a store that
\* is no array it throws before it writes anything
FilterAppointments(filter) ==
    /\ studentFilter' = filter
    /\ container' = IF ~studentStore.isArray THEN container
                    ELSE IF filter = "all" THEN StudentDisplay(studentStore.list)
                    ELSE StudentDisplay(StatusOnly(studentStore.list, filter))
    /\ UNCHANGED <<studentLoads, studentStore, chatVars, studentCallVars>>
    /\ UNCHANGED <<storeVars, scannerVars, modalVars>>
    /\ UNCHANGED authVars

-----------------------------------------------------------------------------
(* The chat of the student view                                            *)

MaxChatHistory == 4

\* String.prototype.trim, for blanks
RECURSIVE TrimStart(_)
TrimStart(s) == IF s # <<>> /\ Head(s) = " " THEN TrimStart(Tail(s)) ELSE s
RECURSIVE TrimEnd(_)
TrimEnd(s) ==
    IF s # <<>> /\ s[Len(s)] = " " THEN TrimEnd(SubSeq(s, 1, Len(s) - 1)) ELSE s
Trim(s) == TrimEnd(TrimStart(s))

\* data.response of a body that has no such field
UNDEFINED == <<"undefined">>

kwBooked   == <<"b","o","o","k","e","d">>
kwCanceled == <<"c","a","n","c","e","l","e","d">>

\* loadAppointments() of the student view up to its await: "Loading..." is
\* written and one more request is out
StudentLoadsAfterCall == Append(studentLoads, [stage |-> "sent"])
Loading == [kind |-> "loading", cards |-> <<>>]

\* the body of POST /chat
ChatRequest(message, history) == [message |-> message, history |-> history]

\* sendChatMessage() up to its await, with `typed` in #chat-input; a blank
\* input returns at once
SendChatMessage(typed) ==
    LET message == Trim(typed)
        pushed  == Append(chatHistory, [role |-> "user", message |-> message])
    IN  /\ message # <<>>
        /\ Len(chatHistory) + Len(chats) + 2 <= MaxChatHistory
        /\ chatHistory' = pushed
        /\ chats' = Append(chats, [stage |-> "sent", request |-> ChatRequest(message, pushed)])
        /\ UNCHANGED <<studentLoads, studentStore, studentFilter, container, studentCallVars>>
        /\ UNCHANGED <<storeVars, scannerVars, modalVars>>
        /\ UNCHANGED authVars

\* what can come back for POST /chat: nothing that parses (the fetch or
\* response.json() throws), or a body whose response field is a text or
\* is missing; the status of the response is not looked at
ChatThrown == [thrown |-> TRUE, response |-> UNDEFINED]
ChatBody(response) == [thrown |-> FALSE, response |-> response]

\* call i of sendChatMessage is answered
ServeChat(i, outcome) ==
    /\ i \in 1..Len(chats)
    /\ chats[i].stage = "sent"
    /\ chats' = [chats EXCEPT ![i] =
                    [stage |-> "reply", request |-> chats[i].request, reply |-> outcome]]
    /\ UNCHANGED <<studentLoads, studentStore, studentFilter, container, chatHistory, studentCallVars>>
    /\ UNCHANGED <<storeVars, scannerVars, modalVars>>
    /\ UNCHANGED authVars

\* the transcript with the reply left out of it
HistoryAfterReplyDropped(history, reply) == history

\* chatHistory after the awaits: the reply is pushed if the body has parsed
HistoryAfterReply(history, reply) ==
    IF reply.thrown THEN history
    ELSE Append(history, [role |-> "model", message |-> reply.response])

\* the refresh trigger with the test for "canceled" left out
ReloadWantedBookedOnly(reply) ==
    /\ ~reply.thrown
    /\ reply.response # UNDEFINED
    /\ Includes(ToLowerCase(reply.response), kwBooked)

\* whether the code after the awaits reaches loadAppointments():
\* addChatMessage throws on a response that is undefined, before the test
ReloadWanted(reply) ==
    /\ ~reply.thrown
    /\ reply.response # UNDEFINED
    /\ \/ Includes(ToLowerCase(reply.response), kwBooked)
       \/ Includes(ToLowerCase(reply.response), kwCanceled)

\* sendChatMessage after its awaits, for call i
ReceiveChat(i) ==
    /\ i \in 1..Len(chats)
    /\ chats[i].stage = "reply"
    /\ chats' = RemoveAt(chats, i)
    /\ chatHistory' = HistoryAfterReply(chatHistory, chats[i].reply)
    /\ IF ReloadWanted(chats[i].reply)
       THEN studentLoads' = StudentLoadsAfterCall /\ container' = Loading
       ELSE UNCHANGED <<studentLoads, container>>
    /\ UNCHANGED <<studentStore, studentFilter, studentCallVars>>
    /\ UNCHANGED <<storeVars, scannerVars, modalVars>>
    /\ UNCHANGED authVars

-----------------------------------------------------------------------------
(* Booking, cancelling and deleting in the student view                    *)

\* the list requests and the calls of the student view that are not yet handled
StudentRequestsOut == Len(studentLoads) + Len(studentCalls)

StudentDialog(icon, title, text) == [icon |-> icon, title |-> title, text |-> text]

\* an id that no row of the table has
FreeId(table) ==
    CHOOSE n \in 1..(Len(table) + 1) :
        /\ \A i \in 1..Len(table) : table[i].id # n
        /\ \A k \in 1..(n - 1) : \E i \in 1..Len(table) : table[i].id = k

\* the row that POST /appointments adds: pending, with an id of its own
Booked(table) ==
    Append(table, [id |-> FreeId(table), student_name |-> <<"A","n","a">>,
                   service_type |-> <<>>, urgency |-> <<>>,
                   appointment_date |-> <<"2","0","2","4","-","0","3","-","0","1">>,
                   status |-> "pending"])

\* handleBooking(e) up to its await; with a required field left empty it
\* warns and returns
HandleBooking(filled) ==
    /\ IF ~filled
       THEN /\ studentSwal' = StudentDialog("warning", "Missing Details", "")
            /\ UNCHANGED studentCalls
       ELSE /\ StudentRequestsOut < MaxRequests
            /\ studentCalls' = Append(studentCalls, [kind |-> "book", stage |-> "sent"])
            /\ UNCHANGED studentSwal
    /\ UNCHANGED <<studentLoads, studentStore, studentFilter, container, chatVars>>
    /\ UNCHANGED <<storeVars, scannerVars, modalVars>>
    /\ UNCHANGED authVars

\* the handler a card offers for its appointment
Offers(id, onclick) ==
    \E i \in 1..Len(container.cards) :
        /\ container.cards[i].id = id
        /\ \E j \in 1..Len(container.cards[i].buttons) :
              container.cards[i].buttons[j].onclick = onclick

\* cancelAppointment(id) or deleteHistory(id) once the student has confirmed
\* the dialog: deleteOrCancel(id, successMsg) up to its await
DeleteOrCancel(id, onclick) ==
    /\ onclick \in {"cancelAppointment", "deleteHistory"}
    /\ Offers(id, onclick)
    /\ StudentRequestsOut < MaxRequests
    /\ studentCalls' = Append(studentCalls,
                              [kind |-> "delete", stage |-> "sent", path |-> IdText(id),
                               successMsg |-> IF onclick = "cancelAppointment"
                                              THEN "Appointment canceled successfully."
                                              ELSE "Appointment removed."])
    /\ UNCHANGED <<studentLoads, studentStore, studentFilter, container, chatVars, studentSwal>>
    /\ UNCHANGED <<storeVars, scannerVars, modalVars>>
    /\ UNCHANGED authVars

\* call i is answered; a 2xx answer has added the row, or removed it
ServeStudentCall(i, outcome) ==
    /\ i \in 1..Len(studentCalls)
    /\ studentCalls[i].stage = "sent"
    /\ backend' = IF outcome.thrown \/ ~outcome.ok THEN backend
                  ELSE IF studentCalls[i].kind = "book" THEN Booked(backend)
                  ELSE WithoutRow(backend, studentCalls[i].path)
    /\ studentCalls' = [studentCalls EXCEPT ![i] =
                           [c \in {"reply"} \cup DOMAIN studentCalls[i] |->
                               IF c = "reply" THEN outcome
                               ELSE IF c = "stage" THEN "reply" ELSE studentCalls[i][c]]]
    /\ UNCHANGED <<loads, allAppointments, statusFilter, searchInput, sortOrder, tbody>>
    /\ UNCHANGED <<studentLoads, studentStore, studentFilter, container, chatVars, studentSwal>>
    /\ UNCHANGED <<scannerVars, modalVars>>
    /\ UNCHANGED authVars

\* the dialog that handleBooking opens after its awaits
BookingDialog(reply) ==
    IF reply.thrown \/ ~reply.parses
    THEN StudentDialog("error", "Error", "Connection error. Please try again.")
    ELSE IF ~reply.ok
    THEN StudentDialog("error", "Booking Failed",
                       IF reply.detail # "" THEN reply.detail ELSE "Could not book appointment.")
    ELSE StudentDialog("success", "Booked!", "Your appointment has been scheduled.")

\* the dialog that deleteOrCancel opens after its await; the body is not read
DeleteDialog(reply, successMsg) ==
    IF reply.thrown THEN StudentDialog("error", "Error", "Connection failed.")
    ELSE IF reply.ok THEN StudentDialog("success", "Done!", successMsg)
    ELSE StudentDialog("error", "Error", "Failed to update.")

\* whether the code after the awaits calls loadAppointments()
StudentReloads(call) ==
    IF call.kind = "book"
    THEN ~call.reply.thrown /\ call.reply.parses /\ call.reply.ok
    ELSE ~call.reply.thrown /\ call.reply.ok

\* handleBooking and deleteOrCancel after their awaits, for call i
ReceiveStudentCall(i) ==
    /\ i \in 1..Len(studentCalls)
    /\ studentCalls[i].stage = "reply"
    /\ studentCalls' = RemoveAt(studentCalls, i)
    /\ studentSwal' = IF studentCalls[i].kind = "book"
                      THEN BookingDialog(studentCalls[i].reply)
                      ELSE DeleteDialog(studentCalls[i].reply, studentCalls[i].successMsg)
    /\ IF StudentReloads(studentCalls[i])
       THEN studentLoads' = StudentLoadsAfterCall /\ container' = Loading
       ELSE UNCHANGED <<studentLoads, container>>
    /\ UNCHANGED <<studentStore, studentFilter, chatVars>>
    /\ UNCHANGED <<storeVars, scannerVars, modalVars>>
    /\ UNCHANGED authVars

-----------------------------------------------------------------------------
(* Sample data for the pipeline                                            *)

nmAna == <<"A","n","a">>
nmBen == <<"B","E","N">>
svClearance    == <<"M","e","d","i","c","a","l"," ","C","l","e","a","r","a","n","c","e">>
svConsultation == <<"M","e","d","i","c","a","l"," ","C","o","n","s","u","l","t","a","t","i","o","n">>
svBoth         == <<"C","l","e","a","r","a","n","c","e","/","C","o","n","s","u","l","t","a","t","i","o","n">>
urUrgent == <<"U","r","g","e","n","t">>
urHigh   == <<"H","I","G","H">>
urNormal == <<"N","o","r","m","a","l">>
urLow    == <<"l","o","w">>
missing  == <<>>

Apt(id, name, service, urgency, date, status) ==
    [id |-> id, student_name |-> name, service_type |-> service,
     urgency |-> urgency, appointment_date |-> date, status |-> status]

\* the five values of the status column, and one the client does not know
KnownStatuses == {"pending", "approved", "rejected", "canceled", "completed"}
Statuses == KnownStatuses \cup {"no_show"}

\* the options of #status-filter and #sort-order, what is typed in #search-input
StatusFilters == {"all"} \cup KnownStatuses
SortChoices == {"newest"} \cup CategoryChoices
SearchInputs == {<<>>, <<"A","N">>, <<"e","n">>}

MaxSortStore == 3
MaxFilterStore == 1
MaxStudentStore == 2

\* records that differ in the two sort keys, with the statuses of the schema
SortRecords ==
    {Apt(0, nmAna, missing, missing, d, s) : d \in {dtFeb29, dtMar01}, s \in KnownStatuses}

\* records outside pending and approved, one of a status the client does not know
AnyStatusRecords ==
    {Apt(0, nmAna, missing, missing, d, s) :
        d \in {dtFeb29, dtMar01}, s \in {"completed", "rejected", "canceled", "no_show"}}

\* records that differ in what the three filter predicates read: in name and
\* status, or in service type and urgency
FilterRecords ==
    {Apt(0, n, svClearance, urUrgent, dtJan10, s) :
        n \in {nmAna, nmBen}, s \in {"pending", "approved"}}
    \cup
    {Apt(0, nmAna, sv, u, dtJan10, "pending") :
        sv \in {svClearance, svConsultation, svBoth, missing},
        u \in {urUrgent, urHigh, urNormal, urLow, missing}}

\* records of every status
StatusRecords == {Apt(0, nmAna, svClearance, urUrgent, dtJan10, s) : s \in Statuses}

\* the tables of at most max rows over recs, ids numbered in table order
Tables(recs, max) ==
    UNION {{[i \in 1..n |-> [f[i] EXCEPT !.id = i]] : f \in [1..n -> recs]} : n \in 0..max}

\* the page as the script leaves it: DOMContentLoaded has called loadAppointments
InitPage ==
    /\ loads = <<[stage |-> "sent"]>>
    /\ allAppointments = <<>>
    /\ statusFilter = "all"
    /\ searchInput = <<>>
    /\ sortOrder = "newest"
    /\ tbody = [kind |-> "initial", rows |-> <<>>]

\* the scanner as the admin script leaves it, the appointments tab shown
InitScanner ==
    /\ activeTab = "appointments"
    /\ html5QrcodeScanner = NULL
    /\ scanResult = <<>>
    /\ checkins = <<>>
    /\ swal = NoDialog

\* the modal as the admin script leaves it: never opened
InitModal ==
    /\ currentAppointmentId = NULL
    /\ modalDisplay = "none"
    /\ actionButtons = "flex"
    /\ rejectForm = "none"
    /\ adminNote = ""
    /\ updates = <<>>
    /\ deletes = <<>>

\* the student page as its script leaves it: its last line has called
\* loadAppointments, which wrote "Loading..."
InitStudentPage ==
    /\ studentLoads = <<[stage |-> "sent"]>>
    /\ studentStore = ArrayBody(<<>>)
    /\ studentFilter = "all"
    /\ container = [kind |-> "loading", cards |-> <<>>]
    /\ chatHistory = <<>>
    /\ chats = <<>>
    /\ studentCalls = <<>>
    /\ studentSwal = StudentDialog("none", "", "")

\* no student page is open
NoStudentPage ==
    /\ studentLoads = <<>>
    /\ studentStore = ArrayBody(<<>>)
    /\ studentFilter = "all"
    /\ container = [kind |-> "loading", cards |-> <<>>]
    /\ chatHistory = <<>>
    /\ chats = <<>>
    /\ studentCalls = <<>>
    /\ studentSwal = StudentDialog("none", "", "")

\* no admin page is open
NoAdminPage ==
    /\ loads = <<>>
    /\ allAppointments = <<>>
    /\ statusFilter = "all"
    /\ searchInput = <<>>
    /\ sortOrder = "newest"
    /\ tbody = [kind |-> "initial", rows |-> <<>>]

-----------------------------------------------------------------------------
(* Signing in and the check that each dashboard script makes when it loads *)

LoginPage == "index.html"
StudentPage == "student-dashboard.html"
AdminPage == "admin-dashboard.html"
Pages == {LoginPage, StudentPage, AdminPage}

\* localStorage after clear()
NoItems == [token |-> NULL, role |-> NULL]

\* `!token || role !== 'student'` of the student script
StudentCheckTokenOnly(token, role) == token = NULL
StudentCheckFails(token, role) == token = NULL \/ role # "student"

\* `!token || (role !== 'admin' && role !== 'super_admin')` of the admin script
AdminCheckFails(token, role) == token = NULL \/ (role # "admin" /\ role # "super_admin")

\* the page that the then-callback of the sign-in toast goes to, NULL if none
PageOfRole(role) ==
    IF role = "student" THEN StudentPage
    ELSE IF role = "admin" \/ role = "super_admin" THEN AdminPage
    ELSE NULL

\* the browser loads page p and runs its script to the end
LoadPage(p) ==
    /\ page' = p
    /\ href' = IF p = StudentPage /\ StudentCheckFails(localStorage.token, localStorage.role)
               THEN LoginPage ELSE NULL
    /\ pendingThen' = IF p = AdminPage /\ AdminCheckFails(localStorage.token, localStorage.role)
                      THEN LoginPage ELSE NULL
    /\ swal' = IF p = AdminPage /\ AdminCheckFails(localStorage.token, localStorage.role)
               THEN Dialog("error", "Unauthorized", "")
               ELSE NoDialog
    /\ loads' = IF p = AdminPage THEN <<[stage |-> "sent"]>> ELSE <<>>
    /\ allAppointments' = <<>>
    /\ statusFilter' = "all"
    /\ searchInput' = <<>>
    /\ sortOrder' = "newest"
    /\ tbody' = [kind |-> "initial", rows |-> <<>>]
    /\ activeTab' = "appointments"
    /\ html5QrcodeScanner' = NULL
    /\ scanResult' = <<>>
    /\ checkins' = <<>>
    /\ currentAppointmentId' = NULL
    /\ modalDisplay' = "none"
    /\ actionButtons' = "flex"
    /\ rejectForm' = "none"
    /\ adminNote' = ""
    /\ updates' = <<>>
    /\ deletes' = <<>>
    /\ studentLoads' = IF p = StudentPage THEN <<[stage |-> "sent"]>> ELSE <<>>
    /\ studentStore' = ArrayBody(<<>>)
    /\ studentFilter' = "all"
    /\ container' = [kind |-> "loading", cards |-> <<>>]
    /\ chatHistory' = <<>>
    /\ chats' = <<>>
    /\ studentCalls' = <<>>
    /\ studentSwal' = StudentDialog("none", "", "")
    /\ UNCHANGED <<backend, localStorage>>

\* the user opens a page by its address
OpenUrl(p) == LoadPage(p)

\* the browser follows the assignment to window.location.href
Navigate == href # NULL /\ LoadPage(href)

\* the timed dialog closes and its then-callback runs
DialogCloses ==
    /\ pendingThen # NULL
    /\ href' = pendingThen
    /\ pendingThen' = NULL
    /\ UNCHANGED <<localStorage, page>>
    /\ UNCHANGED <<storeVars, studentVars, scannerVars, modalVars>>

\* the submit handler of the login form, answered with 2xx and this role
Login(role) ==
    /\ page = LoginPage
    /\ localStorage' = [token |-> "token", role |-> role]
    /\ pendingThen' = PageOfRole(role)
    /\ UNCHANGED <<page, href>>
    /\ UNCHANGED <<storeVars, studentVars, scannerVars, modalVars>>

\* the submit handler of the login form, answered with a non-2xx status
\* ('Login Failed') or not at all ('Server Error'): an error dialog
LoginFails(title) ==
    /\ page = LoginPage
    /\ swal' = Dialog("error", title, "")
    /\ UNCHANGED <<activeTab, html5QrcodeScanner, scanResult, checkins>>
    /\ UNCHANGED authVars
    /\ UNCHANGED <<storeVars, studentVars, modalVars>>

\* logout() of either dashboard, confirmed
Logout ==
    /\ page # LoginPage
    /\ localStorage' = NoItems
    /\ href' = LoginPage
    /\ UNCHANGED <<page, pendingThen>>
    /\ UNCHANGED <<storeVars, studentVars, scannerVars, modalVars>>

\* a signed-in admin has the admin page open, a signed-in student theirs
AdminSignedIn ==
    /\ localStorage = [token |-> "token", role |-> "admin"]
    /\ page = AdminPage /\ href = NULL /\ pendingThen = NULL
StudentSignedIn ==
    /\ localStorage = [token |-> "token", role |-> "student"]
    /\ page = StudentPage /\ href = NULL /\ pendingThen = NULL

ChangeStatusFilter == \E f \in StatusFilters : ApplyFiltersAndSort(f, searchInput, sortOrder)
ChangeSearchInput  == \E t \in SearchInputs : ApplyFiltersAndSort(statusFilter, t, sortOrder)
ChangeSortOrder    == \E c \in SortChoices : ApplyFiltersAndSort(statusFilter, searchInput, c)
ServeLoadOk        == \E i \in 1..Len(loads) : ServeLoad(i, TRUE)
ReceiveLoadAny     == \E i \in 1..Len(loads) : ReceiveLoad(i)

StudentServeLoadAny   == \E i \in 1..Len(studentLoads), o \in LoadOutcomes : StudentServeLoad(i, o)
StudentReceiveLoadAny == \E i \in 1..Len(studentLoads) : StudentReceiveLoad(i)
ChangeStudentFilter   == \E f \in StatusFilters : FilterAppointments(f)

InitSort == backend \in Tables(SortRecords, MaxSortStore) /\ InitPage /\ InitScanner /\ InitModal /\ NoStudentPage /\ AdminSignedIn
NextSort == ServeLoadOk \/ ReceiveLoadAny \/ ChangeStatusFilter
SpecSort == InitSort /\ [][NextSort]_vars

InitSortAny == backend \in Tables(AnyStatusRecords, MaxSortStore) /\ InitPage /\ InitScanner /\ InitModal /\ NoStudentPage /\ AdminSignedIn
SpecSortAny == InitSortAny /\ [][NextSort]_vars

InitFilter == backend \in Tables(FilterRecords, MaxFilterStore) /\ InitPage /\ InitScanner /\ InitModal /\ NoStudentPage /\ AdminSignedIn
NextFilter ==
    ServeLoadOk \/ ReceiveLoadAny \/ ChangeStatusFilter \/ ChangeSearchInput \/ ChangeSortOrder
SpecFilter == InitFilter /\ [][NextFilter]_vars

\* the codes held up to the camera: the tickets of rows 1 and 2
DecodedTexts == {"1", "2"}
Tabs == {"appointments", "scanner", "users"}

ScannerTabs == {"scanner", "users"}

ShowTabAny        ==
    \E tab \in Tabs : (tab = "appointments" => RequestsOut < MaxRequests) /\ ShowTab(tab)
ShowScannerTab    == \E tab \in ScannerTabs : ShowTab(tab)
Decode            == Len(checkins) < MaxScans /\ \E text \in DecodedTexts : OnScanSuccess(text)
ServeCheckinAny   == \E i \in 1..Len(checkins), o \in PutOutcomes : ServeCheckin(i, o)
ReceiveCheckinAny == \E i \in 1..Len(checkins) : ReceiveCheckin(i)
CloseVerifiedAny  == \E i \in 1..Len(checkins) : CloseVerified(i)
DismissWarningAny == \E i \in 1..Len(checkins) : DismissWarning(i)
BackoffTimerAny   == \E i \in 1..Len(checkins) : BackoffTimer(i)

\* an approved and a completed appointment
ScannerTable ==
    <<Apt(1, nmAna, missing, missing, dtJan10, "approved"),
      Apt(2, nmBen, missing, missing, dtJan12, "completed")>>

\* the admin page after its first list has come in
InitLoadedPage ==
    /\ loads = <<>>
    /\ allAppointments = backend
    /\ statusFilter = "all"
    /\ searchInput = <<>>
    /\ sortOrder = "newest"
    /\ tbody = DisplayAppointments(Pipeline(backend, "all", <<>>, "newest"))

InitScan == backend = ScannerTable /\ InitLoadedPage /\ InitScanner /\ InitModal /\ NoStudentPage /\ AdminSignedIn
NextScan ==
    \/ ShowScannerTab \/ Decode \/ ServeCheckinAny \/ ReceiveCheckinAny
    \/ CloseVerifiedAny \/ DismissWarningAny \/ BackoffTimerAny
SpecScan == InitScan /\ [][NextScan]_vars

\* every request gets its outcome, handlers run, timers fire, dialogs are dismissed
FairScan ==
    /\ WF_vars(ServeCheckinAny) /\ WF_vars(ReceiveCheckinAny)
    /\ WF_vars(CloseVerifiedAny) /\ WF_vars(DismissWarningAny) /\ WF_vars(BackoffTimerAny)
SpecScanFair == SpecScan /\ FairScan

MaxAdminStore == 1

\* pending and approved appointments
AdminRecords ==
    {Apt(0, nmAna, missing, missing, dtJan10, s) : s \in {"pending", "approved"}}
AdminNotes == {"No slot left"}

ServeLoadAny == \E i \in 1..Len(loads), ok \in BOOLEAN : ServeLoad(i, ok)
OpenAppointmentModalAny == \E id \in 1..MaxAdminStore : OpenAppointmentModal(id)
TypeAdminNoteAny == \E text \in AdminNotes : TypeAdminNote(text)
UpdateAppointmentStatusAny ==
    /\ RequestsOut < MaxRequests
    /\ \E status \in {"approved", "rejected"} : UpdateAppointmentStatus(status)
ServeUpdateAny == \E i \in 1..Len(updates), o \in PutOutcomes : ServeUpdate(i, o)
ReceiveUpdateAny == \E i \in 1..Len(updates) : ReceiveUpdate(i)
OtherClientUpdateAny ==
    \E i \in 1..Len(backend), s \in KnownStatuses : OtherClientUpdate(i, s)

HandleBookingAny == \E filled \in BOOLEAN : HandleBooking(filled)
DeleteOrCancelAny ==
    \E id \in 1..(MaxAdminStore + 1), onclick \in {"cancelAppointment", "deleteHistory"} :
        DeleteOrCancel(id, onclick)
StudentOutcomes ==
    {Thrown, Response(TRUE, TRUE, ""), Response(TRUE, FALSE, ""),
     Response(FALSE, TRUE, "Slot taken"), Response(FALSE, TRUE, "")}

\* a booking is accepted while the table has room
ServeStudentCallAny ==
    \E i \in 1..Len(studentCalls), o \in StudentOutcomes :
        /\ (studentCalls[i].kind = "book" /\ o.ok) => Len(backend) <= MaxAdminStore
        /\ ServeStudentCall(i, o)
ReceiveStudentCallAny == \E i \in 1..Len(studentCalls) : ReceiveStudentCall(i)

InitBook ==
    /\ backend \in Tables(AdminRecords, MaxAdminStore)
    /\ InitStudentPage /\ NoAdminPage /\ InitScanner /\ InitModal /\ StudentSignedIn
NextBook ==
    \/ HandleBookingAny \/ DeleteOrCancelAny \/ ServeStudentCallAny \/ ReceiveStudentCallAny
    \/ StudentServeLoadAny \/ StudentReceiveLoadAny
SpecBook == InitBook /\ [][NextBook]_vars

DeleteAppointmentAny ==
    RequestsOut < MaxRequests /\ \E id \in 1..MaxAdminStore : DeleteAppointment(id)
ServeDeleteAny == \E i \in 1..Len(deletes), o \in PutOutcomes : ServeDelete(i, o)
ReceiveDeleteAny == \E i \in 1..Len(deletes) : ReceiveDelete(i)

InitAdmin ==
    /\ backend \in Tables(AdminRecords, MaxAdminStore)
    /\ InitPage /\ InitScanner /\ InitModal /\ NoStudentPage /\ AdminSignedIn
NextAdmin ==
    \/ ServeLoadAny \/ ReceiveLoadAny \/ ShowTabAny
    \/ OpenAppointmentModalAny \/ CloseModal \/ ShowRejectForm \/ TypeAdminNoteAny
    \/ UpdateAppointmentStatusAny \/ ServeUpdateAny \/ ReceiveUpdateAny
    \/ DeleteAppointmentAny \/ ServeDeleteAny \/ ReceiveDeleteAny
    \/ OtherClientUpdateAny
SpecAdmin == InitAdmin /\ [][NextAdmin]_vars

\* what the student types into #chat-input
ChatInputs == {<<" ">>, <<"h","i">>, <<" ","o","k"," ">>}

\* replies of the assistant: with a keyword in capitals, with the other
\* keyword, with a near miss of it, and a body with no response field
ChatReplies ==
    {<<"B","O","O","K","E","D">>, <<"i","s"," ","c","a","n","c","e","l","e","d">>,
     <<"c","a","n","c","e","l","l","e","d">>, UNDEFINED}
ChatOutcomes == {ChatThrown} \cup {ChatBody(r) : r \in ChatReplies}

SendChatMessageAny == \E typed \in ChatInputs : SendChatMessage(typed)
ServeChatAny == \E i \in 1..Len(chats), o \in ChatOutcomes : ServeChat(i, o)
ReceiveChatAny == \E i \in 1..Len(chats) : ReceiveChat(i)

InitChat == backend = <<>> /\ InitStudentPage /\ NoAdminPage /\ InitScanner /\ InitModal /\ StudentSignedIn
NextChat ==
    \/ SendChatMessageAny \/ ServeChatAny \/ ReceiveChatAny
    \/ StudentServeLoadAny \/ StudentReceiveLoadAny
SpecChat == InitChat /\ [][NextChat]_vars

\* one page is open at a time; an open page has a list request out or has
\* rendered the outcome of one
AdminOpen == loads # <<>> \/ tbody.kind # "initial"
StudentOpen == studentLoads # <<>> \/ container.kind # "loading"

\* the outcomes of a write: the fetch throws, 2xx, or not 2xx with a detail
WriteOutcomes == {Thrown, Response(TRUE, TRUE, ""), Response(FALSE, TRUE, "Not allowed")}

\* the filter is switched between all and pending
StoreFilters == {"all", "pending"}
SwitchStatusFilter == \E f \in StoreFilters : ApplyFiltersAndSort(f, searchInput, sortOrder)
SwitchStudentFilter == \E f \in StoreFilters : FilterAppointments(f)

ShowAppointmentsTab == RequestsOut < MaxRequests /\ ShowTab("appointments")
Approve == RequestsOut < MaxRequests /\ UpdateAppointmentStatus("approved")
ServeUpdateWrite == \E i \in 1..Len(updates), o \in WriteOutcomes : ServeUpdate(i, o)
ServeDeleteWrite == \E i \in 1..Len(deletes), o \in WriteOutcomes : ServeDelete(i, o)
\* a booking is accepted while the table is empty
ServeStudentCallWrite ==
    \E i \in 1..Len(studentCalls), o \in WriteOutcomes :
        /\ (studentCalls[i].kind = "book" /\ o.ok) => backend = <<>>
        /\ ServeStudentCall(i, o)

\* no appointment, a pending one, an approved one
StoreTables == Tables(AdminRecords, 1)

InitStore ==
    /\ backend \in StoreTables
    /\ InitScanner /\ InitModal
    /\ \/ InitPage /\ NoStudentPage /\ AdminSignedIn
       \/ InitStudentPage /\ NoAdminPage /\ StudentSignedIn
NextStore ==
    \/ AdminOpen /\ \/ ShowAppointmentsTab \/ ServeLoadAny \/ ReceiveLoadAny
                    \/ SwitchStatusFilter
                    \/ OpenAppointmentModalAny \/ Approve \/ ServeUpdateWrite \/ ReceiveUpdateAny
                    \/ DeleteAppointmentAny \/ ServeDeleteWrite \/ ReceiveDeleteAny
    \/ StudentOpen /\ \/ HandleBookingAny \/ DeleteOrCancelAny
                      \/ ServeStudentCallWrite \/ ReceiveStudentCallAny
                      \/ StudentServeLoadAny \/ StudentReceiveLoadAny \/ SwitchStudentFilter
SpecStore == InitStore /\ [][NextStore]_vars

\* the admin page with up to MaxInFlight requests out at a time, every one
\* of them answered with 2xx; no other client writes
MaxInFlight == 2
ShowAppointmentsTabAgain == RequestsOut < MaxInFlight /\ ShowTab("appointments")
UpdateWhileLoading ==
    /\ RequestsOut < MaxInFlight /\ updates = <<>>
    /\ \E status \in {"approved", "rejected"} : UpdateAppointmentStatus(status)
ServeUpdateOk == \E i \in 1..Len(updates) : ServeUpdate(i, Response(TRUE, TRUE, ""))

InitRefresh ==
    /\ backend \in Tables(AdminRecords, 1) \ {<<>>}
    /\ InitPage /\ InitScanner /\ InitModal /\ NoStudentPage /\ AdminSignedIn
NextRefresh ==
    \/ ShowAppointmentsTabAgain \/ ServeLoadOk \/ ReceiveLoadAny \/ SwitchStatusFilter
    \/ OpenAppointmentModalAny \/ ShowRejectForm \/ CloseModal
    \/ UpdateWhileLoading \/ ServeUpdateOk \/ ReceiveUpdateAny
SpecRefresh == InitRefresh /\ [][NextRefresh]_vars

\* the roles of the users table
Roles == {"student", "admin", "super_admin"}
OpenUrlAny == \E p \in Pages : OpenUrl(p)
LoginAny == \E role \in Roles : Login(role)
LoginFailsAny == \E title \in {"Login Failed", "Server Error"} : LoginFails(title)

InitAuth ==
    /\ backend \in Tables(AdminRecords, 1)
    /\ NoAdminPage /\ InitScanner /\ InitModal
    /\ NoStudentPage
    /\ localStorage = NoItems
    /\ page = LoginPage /\ href = NULL /\ pendingThen = NULL
NextAuth ==
    \/ OpenUrlAny \/ Navigate \/ DialogCloses \/ LoginAny \/ LoginFailsAny \/ Logout
    \/ ServeLoadAny \/ ReceiveLoadAny \/ StudentServeLoadAny \/ StudentReceiveLoadAny
SpecAuth == InitAuth /\ [][NextAuth]_vars

\* the scanner with up to MaxDecodes calls of onScanSuccess not yet ended
MaxDecodes == 2
DecodeAgain == Len(checkins) < MaxDecodes /\ \E text \in DecodedTexts : OnScanSuccess(text)
NextScanTwice ==
    \/ ShowScannerTab \/ DecodeAgain \/ ServeCheckinAny \/ ReceiveCheckinAny
    \/ CloseVerifiedAny \/ DismissWarningAny \/ BackoffTimerAny
SpecScanTwice == InitScan /\ [][NextScanTwice]_vars

InitStudent == backend \in Tables(StatusRecords, MaxStudentStore) /\ InitStudentPage /\ NoAdminPage /\ InitScanner /\ InitModal /\ StudentSignedIn
NextStudent == StudentServeLoadAny \/ StudentReceiveLoadAny \/ ChangeStudentFilter
SpecStudent == InitStudent /\ [][NextStudent]_vars

-----------------------------------------------------------------------------
(* Properties of the admin pipeline                                        *)

Rows == tbody.rows
StoreElements == {allAppointments[i] : i \in 1..Len(allAppointments)}
PositionInStore(apt) == CHOOSE i \in 1..Len(allAppointments) : allAppointments[i] = apt

\* yyyymmdd of a 'YYYY-MM-DD' text: later dates have larger keys
DateKey(d) == 10000 * Number4(d, 1) + 100 * Number2(d, 6) + Number2(d, 9)

IsUrgentOrHigh(apt) == ToLowerCase(apt.urgency) \in {txtUrgent, txtHigh}
IsNormalOrLow(apt)  == ToLowerCase(apt.urgency) \in {txtNormal, txtLow}
HasKeyword(apt, kw) == Includes(ToLowerCase(apt.service_type), kw)

\* C1: every appointment the admin view renders is an element of the store and
\* satisfies the status filter, the search term and the category of the
\* sort-choice, all three at once.
C1_PipelineSound ==
    \A i \in 1..Len(Rows) :
        LET apt == Rows[i] IN
        /\ apt \in StoreElements
        /\ statusFilter = "all" \/ apt.status = statusFilter
        /\ Includes(ToLowerCase(apt.student_name), ToLowerCase(searchInput))
        /\ sortOrder = "clearance-urgent" =>
               HasKeyword(apt, kwClearance) /\ IsUrgentOrHigh(apt)
        /\ sortOrder = "consultation-urgent" =>
               HasKeyword(apt, kwConsultation) /\ IsUrgentOrHigh(apt)
        /\ sortOrder = "clearance-normal" =>
               HasKeyword(apt, kwClearance) /\ IsNormalOrLow(apt)
        /\ sortOrder = "consultation-normal" =>
               HasKeyword(apt, kwConsultation) /\ IsNormalOrLow(apt)

\* a row is shown while all three filters are active
C1_Witness ==
    /\ Len(Rows) > 0
    /\ statusFilter = "pending"
    /\ searchInput = <<"A","N">>
    /\ sortOrder = "clearance-urgent"

\* the three bands of the statuses the backend stores
Band(status) ==
    IF status = "pending" THEN 1 ELSE IF status = "approved" THEN 2 ELSE 3

\* C2: of any two rendered records the one in the lower status band comes
\* first, and in the same band the one with the later appointment date.
C2_SortOrder ==
    \A i, j \in 1..Len(Rows) :
        /\ Band(Rows[i].status) < Band(Rows[j].status) => i < j
        /\ (/\ Band(Rows[i].status) = Band(Rows[j].status)
            /\ DateKey(Rows[i].appointment_date) > DateKey(Rows[j].appointment_date)) => i < j

\* three records of two bands are shown, two of them in band 3 with different
\* dates, and not in the order of the store
C2_Witness ==
    /\ Len(Rows) = 3
    /\ {Band(Rows[i].status) : i \in 1..3} = {1, 3}
    /\ \E i, j \in 1..3 :
          /\ Band(Rows[i].status) = Band(Rows[j].status)
          /\ Rows[i].appointment_date # Rows[j].appointment_date
    /\ allAppointments # Rows

NotPendingNorApproved(apt) == apt.status \notin {"pending", "approved"}
InBandThree(apt) == apt.status \in {"completed", "rejected", "canceled"}

\* C3 as claimed: all records that are neither pending nor approved, also
\* those of an unrecognized status, are ordered among each other by
\* appointment date alone.
C3_OneBandForTheRest ==
    \A i, j \in 1..Len(Rows) :
        (/\ NotPendingNorApproved(Rows[i])
         /\ NotPendingNorApproved(Rows[j])
         /\ DateKey(Rows[i].appointment_date) > DateKey(Rows[j].appointment_date)) => i < j

\* C3 amended: completed, rejected and canceled records share a band and are
\* ordered among each other by date alone; a record of any other status that
\* is neither pending nor approved comes after all of them, and such records
\* are ordered among each other by date.
C3_BandThreeThenUnknown ==
    \A i, j \in 1..Len(Rows) :
        /\ (/\ InBandThree(Rows[i]) /\ InBandThree(Rows[j])
            /\ DateKey(Rows[i].appointment_date) > DateKey(Rows[j].appointment_date)) => i < j
        /\ (/\ InBandThree(Rows[i])
            /\ NotPendingNorApproved(Rows[j]) /\ ~InBandThree(Rows[j])) => i < j
        /\ (/\ NotPendingNorApproved(Rows[i]) /\ ~InBandThree(Rows[i])
            /\ NotPendingNorApproved(Rows[j]) /\ ~InBandThree(Rows[j])
            /\ DateKey(Rows[i].appointment_date) > DateKey(Rows[j].appointment_date)) => i < j

\* a record of an unrecognized status is shown after an earlier-dated completed one
C3_Witness ==
    \E i, j \in 1..Len(Rows) :
        /\ i < j
        /\ Rows[i].status = "completed"
        /\ Rows[j].status = "no_show"
        /\ DateKey(Rows[j].appointment_date) > DateKey(Rows[i].appointment_date)

\* C4: two rendered records of the same status band and the same date keep
\* the relative order they have in the store.
C4_Stable ==
    \A i, j \in 1..Len(Rows) :
        (/\ i < j
         /\ Band(Rows[i].status) = Band(Rows[j].status)
         /\ Rows[i].appointment_date = Rows[j].appointment_date)
        => PositionInStore(Rows[i]) < PositionInStore(Rows[j])

\* two records equal in both keys are shown, after a record that the sort moved
C4_Witness ==
    /\ Len(Rows) = 3
    /\ allAppointments # Rows
    /\ \E i, j \in 1..3 :
          /\ i < j
          /\ Rows[i].status # Rows[j].status
          /\ Band(Rows[i].status) = Band(Rows[j].status)
          /\ Rows[i].appointment_date = Rows[j].appointment_date

AdmittingChoices(apt) == {c \in CategoryChoices : MatchesType(apt, c)}

\* C5 as claimed: at most one of the four category choices admits an
\* appointment, whatever its service type and urgency.
C5_AtMostOneCategory ==
    \A apt \in StoreElements : Cardinality(AdmittingChoices(apt)) <= 1

\* C5 amended: no appointment is admitted by an urgent and by a normal
\* category, and one whose service type does not hold both keywords is
\* admitted by at most one category; one that holds both is admitted by the
\* clearance and the consultation category of its urgency.
C5_ExclusivePerKeyword ==
    \A apt \in StoreElements :
        /\ \A c, d \in AdmittingChoices(apt) :
              (c \in {"clearance-urgent", "consultation-urgent"})
                  = (d \in {"clearance-urgent", "consultation-urgent"})
        /\ ~(HasKeyword(apt, kwClearance) /\ HasKeyword(apt, kwConsultation))
              => Cardinality(AdmittingChoices(apt)) <= 1
        /\ (HasKeyword(apt, kwClearance) /\ HasKeyword(apt, kwConsultation)
                /\ IsUrgentOrHigh(apt))
              => AdmittingChoices(apt) = {"clearance-urgent", "consultation-urgent"}

\* an appointment naming both services is shown under a category choice
C5_Witness ==
    /\ sortOrder = "consultation-urgent"
    /\ \E i \in 1..Len(Rows) :
          HasKeyword(Rows[i], kwClearance) /\ HasKeyword(Rows[i], kwConsultation)

-----------------------------------------------------------------------------
(* Properties of the student view                                          *)

Labels(card) == {card.buttons[i].label : i \in 1..Len(card.buttons)}

\* the student column of the status/action table
StudentRow(status) ==
    CASE status = "pending"   -> {"Cancel Request"}
      [] status = "approved"  -> {"Download Ticket", "Cancel Appointment"}
      [] status = "completed" -> {"Delete History"}
      [] status = "rejected"  -> {"Delete History"}
      [] status = "canceled"  -> {"Delete History"}

\* C6: for each of the five statuses the student card offers exactly the
\* actions of its table row, one button each, and never none.
C6_StudentActions ==
    \A i \in 1..Len(container.cards) :
        LET card == container.cards[i] IN
        card.status \in KnownStatuses =>
            /\ Labels(card) = StudentRow(card.status)
            /\ Len(card.buttons) = Cardinality(StudentRow(card.status))
            /\ Len(card.buttons) > 0

\* an approved and a pending card are shown together
C6_Witness ==
    /\ container.kind = "cards"
    /\ {container.cards[i].status : i \in 1..Len(container.cards)} = {"approved", "pending"}

-----------------------------------------------------------------------------
(* Properties of the chat                                                  *)

\* a step in which a call of sendChatMessage begins
ChatSendStep == Len(chats') = Len(chats) + 1
\* a step in which call i of sendChatMessage runs the code after its awaits
ChatReplyStep(i) ==
    /\ i \in 1..Len(chats) /\ chats[i].stage = "reply"
    /\ chats' = RemoveAt(chats, i)

\* C11: the transcript only grows, by the utterance when a message is sent
\* and by the reply when a reply has been parsed, in that order of events;
\* and the history of a request is the whole transcript at the time it is
\* sent, the utterance of the turn included.
C11_Transcript ==
    [][/\ \/ chatHistory' = chatHistory
          \/ /\ Len(chatHistory') = Len(chatHistory) + 1
             /\ SubSeq(chatHistory', 1, Len(chatHistory)) = chatHistory
       /\ ChatSendStep =>
            LET new == chats'[Len(chats')] IN
            /\ chatHistory' = Append(chatHistory, [role |-> "user", message |-> new.request.message])
            /\ new.request.history = chatHistory'
       /\ \A i \in 1..Len(chats) :
            ChatReplyStep(i) =>
                IF chats[i].reply.thrown THEN chatHistory' = chatHistory
                ELSE chatHistory' =
                        Append(chatHistory, [role |-> "model", message |-> chats[i].reply.response])
       /\ chatHistory' # chatHistory => (ChatSendStep \/ \E i \in 1..Len(chats) : ChatReplyStep(i))
      ]_vars

\* two utterances are out before the first reply has come in and been pushed
C11_Witness ==
    /\ Len(chatHistory) = 3
    /\ chatHistory[1].role = "user" /\ chatHistory[2].role = "user"
    /\ chatHistory[3].role = "model"
    /\ Len(chats) = 1

\* the text has the word at some position, whatever the case of its letters
Mentions(text, word) ==
    \E k \in 1..Len(text) :
        /\ k + Len(word) - 1 <= Len(text)
        /\ \A j \in 1..Len(word) : ToLowerChar(text[k + j - 1]) = word[j]

\* C12: the step that handles a reply issues one reload if the reply text
\* mentions "booked" or "canceled" in any case, and none if it mentions
\* neither; no other step of the chat issues a reload.
C12_ChatReload ==
    [][/\ \A i \in 1..Len(chats) :
            (ChatReplyStep(i) /\ ~chats[i].reply.thrown /\ chats[i].reply.response # UNDEFINED) =>
                IF Mentions(chats[i].reply.response, kwBooked)
                   \/ Mentions(chats[i].reply.response, kwCanceled)
                THEN studentLoads' = Append(studentLoads, [stage |-> "sent"])
                ELSE studentLoads' = studentLoads
       /\ (ChatSendStep \/ (Len(chats') = Len(chats) /\ chats' # chats)) =>
            studentLoads' = studentLoads
      ]_vars

\* the reload that a reply with "canceled" has issued is out
C12_Witness ==
    /\ Len(chatHistory) = 2
    /\ chatHistory[2].role = "model"
    /\ Mentions(chatHistory[2].message, kwCanceled)
    /\ Len(studentLoads) = 2

-----------------------------------------------------------------------------
(* Properties of the store and of the calls that write                     *)

\* a step in which the rest of loadAppointments runs for list request i
AdminLoadStep(i) ==
    /\ i \in 1..Len(loads) /\ loads[i].stage = "reply"
    /\ loads' = RemoveAt(loads, i)
StudentLoadStep(i) ==
    /\ i \in 1..Len(studentLoads) /\ studentLoads[i].stage = "reply"
    /\ studentLoads' = RemoveAt(studentLoads, i)
\* a step in which the code after the await of a write runs
UpdateReplyStep(i) ==
    /\ i \in 1..Len(updates) /\ updates[i].stage = "reply"
    /\ updates' = RemoveAt(updates, i)
DeleteReplyStep(i) ==
    /\ i \in 1..Len(deletes) /\ deletes[i].stage = "reply"
    /\ deletes' = RemoveAt(deletes, i)
StudentReplyStep(i) ==
    /\ i \in 1..Len(studentCalls) /\ studentCalls[i].stage = "reply"
    /\ studentCalls' = RemoveAt(studentCalls, i)

\* C13: in both views the store changes only in a step that handles the
\* answer of a list request, and is then exactly the body of that answer;
\* a 2xx answer always replaces it.  Every other step (sending or handling
\* a booking, an update, a delete or a cancel, filtering, rendering) leaves
\* the store as it is, contents and order.
C13_StoreReplaced ==
    [][/\ allAppointments' # allAppointments =>
            \E i \in 1..Len(loads) :
                AdminLoadStep(i) /\ loads[i].ok /\ allAppointments' = loads[i].body
       /\ \A i \in 1..Len(loads) :
            (AdminLoadStep(i) /\ loads[i].ok) => allAppointments' = loads[i].body
       /\ studentStore' # studentStore =>
            \E i \in 1..Len(studentLoads) :
                StudentLoadStep(i) /\ ~studentLoads[i].thrown
                /\ studentStore' = studentLoads[i].body
       /\ \A i \in 1..Len(studentLoads) :
            (StudentLoadStep(i) /\ ~studentLoads[i].thrown) =>
                studentStore' = studentLoads[i].body
      ]_vars

\* the backend has approved the appointment on the admin's request, the
\* store still has it as pending
C13_Witness ==
    /\ Len(updates) = 1 /\ updates[1].stage = "reply" /\ updates[1].reply.ok
    /\ Len(allAppointments) = 1 /\ allAppointments[1].status = "pending"
    /\ Len(backend) = 1 /\ backend[1].status = "approved"

\* C14: the code after the await of a write calls loadAppointments exactly
\* if the answer was a success.
C14_ReloadOnSuccessOnly ==
    [][/\ \A i \in 1..Len(updates) :
            UpdateReplyStep(i) =>
                IF ~updates[i].reply.thrown /\ updates[i].reply.ok
                THEN loads' = Append(loads, [stage |-> "sent"])
                ELSE loads' = loads
       /\ \A i \in 1..Len(deletes) :
            DeleteReplyStep(i) =>
                IF ~deletes[i].reply.thrown /\ deletes[i].reply.ok
                THEN loads' = Append(loads, [stage |-> "sent"])
                ELSE loads' = loads
      ]_vars

\* C15: when the fetch of a write has thrown, the code after it opens an
\* error dialog, and sends nothing again.
C15_ThrownIsSurfaced ==
    [][/\ \A i \in 1..Len(updates) :
            (UpdateReplyStep(i) /\ updates[i].reply.thrown) =>
                (swal'.icon = "error" /\ UNCHANGED <<loads, deletes>>)
       /\ \A i \in 1..Len(deletes) :
            (DeleteReplyStep(i) /\ deletes[i].reply.thrown) =>
                (swal'.icon = "error" /\ UNCHANGED <<loads, updates>>)
      ]_vars

\* C16: when the answer to a write is not 2xx, the code after it opens an
\* error dialog and no success dialog.
C16_NonSuccessIsError ==
    [][/\ \A i \in 1..Len(updates) :
            (UpdateReplyStep(i) /\ ~updates[i].reply.thrown /\ ~updates[i].reply.ok) =>
                swal'.icon = "error"
       /\ \A i \in 1..Len(deletes) :
            (DeleteReplyStep(i) /\ ~deletes[i].reply.thrown /\ ~deletes[i].reply.ok) =>
                swal'.icon = "error"
      ]_vars

\* C17: a list request that fails (throws, or is answered by something that
\* is no list) leaves the student's store the list it was.
C17_StoreStaysList ==
    [][\A i \in 1..Len(studentLoads) :
          (StudentLoadStep(i) /\ (studentLoads[i].thrown \/ ~studentLoads[i].body.isArray)) =>
              (studentStore' = studentStore /\ studentStore'.isArray)]_vars

\* C20: when the rest of loadAppointments has run on a 2xx answer and no
\* request is out any more, the store is the backend's table.
C20_RefreshCurrent ==
    [][\A i \in 1..Len(loads) :
          (AdminLoadStep(i) /\ loads[i].ok /\ RequestsOut' = 0) =>
              allAppointments' = backend']_vars

\* C18: on the student page a redirect to the login page is under way
\* exactly if localStorage has no token or a role other than 'student'; on
\* the admin page exactly if it has no token or a role other than 'admin'
\* and 'super_admin' (there the redirect waits for the 'Unauthorized'
\* dialog to close).  No dashboard redirects to anything but the login page.
C18_AuthGuard ==
    /\ page = StudentPage =>
          /\ href = LoginPage <=>
                (localStorage.token = NULL \/ localStorage.role # "student")
          /\ href \in {NULL, LoginPage} /\ pendingThen = NULL
    /\ page = AdminPage =>
          /\ (href = LoginPage \/ pendingThen = LoginPage) <=>
                (localStorage.token = NULL \/ localStorage.role \notin {"admin", "super_admin"})
          /\ href \in {NULL, LoginPage} /\ pendingThen \in {NULL, LoginPage}

\* a signed-in admin has opened the student page and is sent to the login page
C18_Witness ==
    /\ page = StudentPage
    /\ localStorage = [token |-> "token", role |-> "admin"]
    /\ href = LoginPage

\* C19: an update to rejected is never sent with an empty note.
C19_RejectionHasNote ==
    [][Len(updates') = Len(updates) + 1 =>
          LET new == updates'[Len(updates')] IN
          new.request.status = "rejected" => new.request.admin_note # ""]_vars

-----------------------------------------------------------------------------
(* Properties of the check-in scanner                                      *)

Stages(s) == {s[i].stage : i \in 1..Len(s)}
IsConflict(reply) ==
    ~reply.thrown /\ reply.parses /\ ~reply.ok
    /\ reply.detail \in {"ALREADY_SCANNED", "already_scanned"}

\* the requests of onScanSuccess that are out
SentCount(s) == Cardinality({i \in 1..Len(s) : s[i].stage = "sent"})

\* a step in which a call of onScanSuccess begins
DecodeStep == Len(checkins') = Len(checkins) + 1
\* a step in which call i runs the code after its awaits
HandledStep(i) ==
    /\ i \in 1..Len(checkins) /\ checkins[i].stage = "reply"
    /\ Len(checkins') = Len(checkins) /\ checkins'[i].stage # "reply"
\* a step in which call i ends
EndStep(i) ==
    /\ i \in 1..Len(checkins)
    /\ checkins' = RemoveAt(checkins, i)

\* C8: a decode stops the scanner and sends one request, PUT for the decoded
\* id with status completed and the fixed note; no other step sends one;
\* and the scanner is started only by a tab click or by a call of
\* onScanSuccess whose request has been answered and handled.
C8_DecodeHandling ==
    [][/\ DecodeStep =>
            /\ html5QrcodeScanner' = NULL
            /\ LET new == checkins'[Len(checkins')] IN
                 /\ new.stage = "sent"
                 /\ new.request.path = new.id
                 /\ new.request.status = "completed"
                 /\ new.request.admin_note = "Verified via QR Scan"
                 /\ scanResult' = <<"Processing ID", new.id>>
                 /\ checkins' = Append(checkins, new)
       /\ SentCount(checkins') > SentCount(checkins) => DecodeStep
       /\ (html5QrcodeScanner = NULL /\ html5QrcodeScanner' # NULL) =>
            \/ checkins' = checkins
            \/ \E i \in 1..Len(checkins) :
                  EndStep(i) /\ checkins[i].stage \in {"verified", "warning", "backoff"}
      ]_vars

\* a request is out and the scanner is stopped
C8_Witness ==
    /\ html5QrcodeScanner = NULL
    /\ Len(checkins) = 1 /\ checkins[1].stage = "sent"
    /\ scanResult = <<"Processing ID", checkins[1].id>>

\* C9 as claimed: the step that handles the scanned-already answer opens the
\* warning and has the scanner running again.
C9_ResumesAtOnce ==
    [][\A i \in 1..Len(checkins) :
          (HandledStep(i) /\ IsConflict(checkins[i].reply)) =>
              (swal'.icon = "warning" /\ html5QrcodeScanner' # NULL)]_vars

\* C9 amended: the warning is opened by the step that handles the
\* scanned-already answer and by no other, and no timer is set; the call then waits for the warning to
\* be dismissed, and the step that dismisses it starts the scanner.
C9_ResumesOnDismissal ==
    [][/\ (swal' # swal /\ swal'.icon = "warning") =>
            \E i \in 1..Len(checkins) : HandledStep(i) /\ IsConflict(checkins[i].reply)
       /\ \A i \in 1..Len(checkins) :
          /\ (HandledStep(i) /\ IsConflict(checkins[i].reply)) =>
                /\ swal' = Dialog("warning", "ALREADY USED", checkins[i].id)
                /\ checkins'[i].stage = "warning"
                /\ html5QrcodeScanner' = html5QrcodeScanner
          /\ (checkins[i].stage = "warning" /\ Len(checkins') = Len(checkins)) =>
                checkins'[i].stage = "warning"
          /\ (checkins[i].stage = "warning" /\ EndStep(i)) =>
                (html5QrcodeScanner' # NULL /\ swal' \in {swal, NoDialog})
      ]_vars

\* the warning is open, the scanner still stopped
C9_Witness ==
    /\ swal.icon = "warning"
    /\ html5QrcodeScanner = NULL
    /\ "warning" \in Stages(checkins)

\* C10: while a call of onScanSuccess has not ended, the scanner will be
\* running again.
C10_ScannerResumes == (checkins # <<>>) ~> (html5QrcodeScanner # NULL)

\* the fetch or the parse of a call has thrown: the scanner is stopped, the
\* error dialog open and the 2000 ms timer not yet fired
C10_Witness ==
    /\ html5QrcodeScanner = NULL
    /\ activeTab = "scanner"
    /\ "backoff" \in Stages(checkins)
    /\ swal.title = "Connection Error"

-----------------------------------------------------------------------------
(* Properties of the appointment modal                                     *)

\* the status that the store has for an id, "absent" if it has no such row
StoreStatus(id) ==
    IF Find(allAppointments, id) = 0 THEN "absent"
    ELSE allAppointments[Find(allAppointments, id)].status

\* C7: whenever the modal sends an update to approved or rejected, the store
\* has the targeted appointment as pending.
C7_ApproveRejectOnlyPending ==
    [][Len(updates') = Len(updates) + 1 =>
          LET new == updates'[Len(updates')] IN
          new.request.status \in {"approved", "rejected"} =>
              StoreStatus(currentAppointmentId) = "pending"]_vars

\* C21: a scanner exists only while the scanner tab is the selected tab.
C21_ScannerOnlyOnItsTab == html5QrcodeScanner # NULL => activeTab = "scanner"

\* C22: at most one check-in request is unanswered at any time.
C22_OneCheckinInFlight ==
    Cardinality({i \in 1..Len(checkins) : checkins[i].stage = "sent"}) <= 1
\* C23: chatHistory alternates user, model, user, model, ...: the entries
\* at odd positions are utterances, those at even positions replies.
C23_Alternates ==
    \A i \in 1..Len(chatHistory) :
        chatHistory[i].role = IF i % 2 = 1 THEN "user" ELSE "model"

\* C24: a dashboard that loads with a failing auth check sends no list
\* request: the step that loads the student page and assigns the login page
\* to window.location.href leaves no student list request out, and the step
\* that loads the admin page and opens the 'Unauthorized' dialog leaves no
\* admin list request out.
C24_NoRequestWithoutCredentials ==
    [][/\ (page # StudentPage /\ page' = StudentPage /\ href' = LoginPage) =>
            studentLoads' = <<>>
       /\ (page # AdminPage /\ page' = AdminPage /\ pendingThen' = LoginPage) =>
            loads' = <<>>
      ]_vars

=============================================================================
